---- MODULE Spec2Model ----
(***************************************************************************)
(* Model of Examples/C18/PIC18Extd/src/main.c: a PIC18 program in which    *)
(* the high-priority TMR0 interrupt routine toggles LATB0 and raises       *)
(* Flags.Bit.Timeout, and the main loop (doloop) polls the flag, clears it *)
(* and copies LATB0 to LATB7.                                              *)
(*                                                                         *)
(* Granularity: one action per C statement of main and doloop; the copy    *)
(* LATB7 = LATB0 is two steps (bit test of LATB0, bit write of LATB7)      *)
(* because an interrupt can be taken between the two instructions.  The    *)
(* interrupt routine runs with GIEH cleared by the hardware, so no main    *)
(* step interleaves with it; it is still modelled statement by statement   *)
(* so that the order of its effects is visible.  A pending, enabled        *)
(* interrupt is taken before the next main instruction.                    *)
(*                                                                         *)
(* Timer overflows are hardware events with no timing in the model: one    *)
(* may occur at any instruction boundary once the timer runs.  An overflow *)
(* event is the 0 -> 1 transition of TMR0IF.                               *)
(***************************************************************************)
EXTENDS Integers, Naturals, Sequences, FiniteSets, TLC

\* ------------------------------------------------------------------ bounds
\* number of timer overflow events explored
MaxOverflows == 2
\* largest value of the never-initialised Flags byte explored at power-on
MaxPowerOnByte == 2
\* the iteration counters saturate here
MaxIter == 2

VARIABLES
  pc,        \* position of main / doloop (line of the next statement)
  hpc,       \* position of InterruptHandlerHigh, "idle" when not executing
  loop,      \* doloop's parameter (register char loop)
  flg,       \* doloop's local copy of Flags (a byte)
  cpy,       \* the LATB0 bit tested by the first half of line 116
  rmw,       \* the Flags byte held in the working register by a byte-wide clear
  state,     \* doloop's static enum TimerState state
  State,     \* global enum TimerState State
  bufIsAbc,  \* whether buffer holds the string "abc"
  Flags,     \* union TimerFlags Flags, as its Byte member
  LATB0,     \* LATBbits.LATB0 (LED-A)
  LATB7,     \* LATBbits.LATB7 (LED-B)
  TRISB,     \* port B direction register
  GIEH,      \* INTCONbits.GIEH
  TMR0IE,    \* INTCON bit 5
  TMR0IF,    \* INTCONbits.TMR0IF
  TMR0IP,    \* INTCON2 bit 2
  IPEN,      \* RCONbits.IPEN
  TMR0ON,    \* T0CON bit 7
  caller,    \* who called doloop: "main" or "harness"
  h          \* history (ghost) record, read by the properties only

vars == <<pc, hpc, loop, flg, cpy, rmw, state, State, bufIsAbc, Flags, LATB0, LATB7,
          TRISB, GIEH, TMR0IE, TMR0IF, TMR0IP, IPEN, TMR0ON, caller, h>>

\* ------------------------------------------------------- the flag union
\* Flags.Bit.Timeout: bit 0 of the byte (unsigned Timeout:1 is the first field)
Timeout(u) == u % 2

\* mutant: the clear of line 115 leaves the bit as it is
ClearTimeoutKeeps(u) == u

\* Flags.Bit.Timeout = 0
ClearTimeout(u) == u - (u % 2)

\* mutant: line 169 leaves the bit as it is
SetTimeoutKeeps(u) == u

\* mutant: line 169 inverts the bit, as line 170 does with LATB0
SetTimeoutToggles(u) == IF u % 2 = 0 THEN u + 1 ELSE u - 1

\* Flags.Bit.Timeout = 1
SetTimeout(u) == u - (u % 2) + 1

\* static union TimerFlags getFlags(void) { return Flags; }
getFlags == Flags

\* mutant: line 170 writes LATB0 back without inverting it
NotKeeps(b) == b

\* !LATBbits.LATB0
Not(b) == IF b = 0 THEN 1 ELSE 0

\* mutant: the test of line 112 inverted
TimeoutSeenInverted(u) == Timeout(u) = 0

\* the test of line 112: flg.Bit.Timeout == 1
TimeoutSeen(u) == Timeout(u) = 1

\* mutant: the loop body runs whatever the argument (a do-while)
LoopContinuesAlways(l) == TRUE

\* the controlling expression of line 109: while (loop)
LoopContinues(l) == l # 0

\* the high-priority interrupt request the CPU sees
IntPending ==
  /\ GIEH = 1
  /\ TMR0IE = 1
  /\ TMR0IF = 1
  /\ (IPEN = 0 \/ TMR0IP = 1)

\* main and doloop execute only outside the interrupt routine, and an enabled
\* pending interrupt is taken before their next instruction
MainRuns == hpc = "idle" /\ ~IntPending

Sat(n) == IF n < MaxIter THEN n + 1 ELSE n

\* ------------------------------------------------------ history variables
\* h records what has happened; no action's guard or program effect reads it.
\*   a0, b0, f0  LATB0, LATB7 and Flags in the initial state
\*   nOvf        timer overflow events so far
\*   nHandled    executions of the handler body (lines 168-170)
\*   nRaise      handler executions that found Timeout clear and set it
\*   nObs        main-loop iterations whose flag read saw Timeout set
\*   pend        handler sets of Timeout since the last flag read that saw it set
\*   nIter,nDone main-loop iterations begun / completed (saturating)
\*   hAtBegin    nHandled when the current iteration began
\*   obsA, obsH  LATB0 and nHandled at the current iteration's flag read
\*   cpyH        nHandled when line 116 read LATB0 (all three reset when the
\*               iteration ends)
\*   ovfSince    an overflow occurred since the last clear of line 115
\*   cleared     line 115 has executed at least once
\*   idleIter    the current iteration began with cleared /\ ~ovfSince and
\*               no overflow has occurred since
\*   lag         progress of the main loop since the last handled overflow
\*   scen        position in the scenario overflow, iteration, overflow, iteration
\*   hs, hw      the state the handler's first statement (line 166) found, and
\*               the handler's writes since, in order, as <<what, new value>>
\*               (both reset when the handler returns)
\*   hAt         where main or doloop stood when the handler last ran
\*   init        the statements of main executed so far, in order
\*   lastSeen    the previous flag read saw Timeout set
\*   hSinceRead  line 169 has run since the last flag read
\*   seenTwice   the last two flag reads both saw Timeout set
\*   hBetween    line 169 ran between the last two flag reads
HInit(a, b, f) ==
  [a0 |-> a, b0 |-> b, f0 |-> f,
   nOvf |-> 0, nHandled |-> 0, nRaise |-> 0, nObs |-> 0, pend |-> 0,
   nIter |-> 0, nDone |-> 0, hAtBegin |-> 0,
   obsA |-> 0, obsH |-> 0, cpyH |-> 0,
   ovfSince |-> FALSE, cleared |-> FALSE, idleIter |-> FALSE,
   lag |-> "none", scen |-> 0,
   hs |-> <<>>, hw |-> <<>>, hAt |-> "none",
   init |-> <<>>,
   lastSeen |-> FALSE, hSinceRead |-> FALSE, seenTwice |-> FALSE,
   hBetween |-> FALSE,
   missed |-> FALSE, caught |-> FALSE]

\* the program-visible state, as the handler finds it
Snapshot == [pc |-> pc, loop |-> loop, flg |-> flg, cpy |-> cpy, rmw |-> rmw,
             state |-> state,
             State |-> State, bufIsAbc |-> bufIsAbc, Flags |-> Flags,
             LATB0 |-> LATB0, LATB7 |-> LATB7, TRISB |-> TRISB,
             TMR0IE |-> TMR0IE, TMR0IF |-> TMR0IF, TMR0IP |-> TMR0IP,
             IPEN |-> IPEN, TMR0ON |-> TMR0ON]

\* main is inside an iteration, past the call of getFlags (lines 112-124)
AfterSnapshot == pc \in {"l112", "l114", "l115", "l115w", "l116", "l116w",
                         "l119", "l120", "l124"}

\* main is inside an iteration of doloop's loop (lines 111-124)
InIteration == pc \in {"l111", "l112", "l114", "l115", "l115w", "l116", "l116w",
                       "l119", "l120", "l124"}

\* scenario automaton: 0 -O-> 1 -B-> 2 -E-> 3 -O-> 4 -B-> 5 -E-> 6, where O is an
\* overflow handled between iterations, B and E the begin and end of an
\* iteration; iterations that begin and end with no overflow in between are
\* allowed at 0 and at 3 (via 7); anything else, an overflow handled inside an
\* iteration (X) included, leaves the scenario (-1)
ScenStep(s, ev) ==
  CASE s = 0 /\ ev = "O" -> 1
    [] s = 0 /\ ev \in {"B", "E"} -> 0
    [] s = 1 /\ ev = "B" -> 2
    [] s = 2 /\ ev = "E" -> 3
    [] s = 3 /\ ev = "O" -> 4
    [] s = 3 /\ ev = "B" -> 7
    [] s = 7 /\ ev = "E" -> 3
    [] s = 4 /\ ev = "B" -> 5
    [] s = 5 /\ ev = "E" -> 6
    [] OTHER -> -1

\* ------------------------------------------------------------ initial state
\* Power-on reset: the interrupt enables and flags are clear and the timer has
\* not been set up; the port latch and the (never initialised) Flags byte hold
\* anything.
Init ==
  /\ pc = "m133"
  /\ hpc = "idle"
  /\ caller = "main"
  /\ loop = 0 /\ flg = 0 /\ cpy = 0 /\ rmw = 0
  /\ state = "Running" /\ State = "Running"
  /\ bufIsAbc = FALSE
  /\ Flags \in 0..MaxPowerOnByte
  /\ LATB0 \in {0, 1}
  /\ LATB7 \in {0, 1}
  /\ TRISB = 255
  /\ GIEH = 0 /\ TMR0IE = 0 /\ TMR0IF = 0 /\ TMR0IP = 0 /\ IPEN = 0
  /\ TMR0ON = 0
  /\ h = HInit(LATB0, LATB7, Flags)

\* ------------------------------------------------------------------- main
\* line 133: Flags.Byte = 0;
M133_ZeroFlags ==
  /\ MainRuns /\ pc = "m133"
  /\ Flags' = 0
  /\ pc' = "m134"
  /\ h' = [h EXCEPT !.init = Append(@, "m133")]
  /\ UNCHANGED <<hpc, loop, flg, cpy, state, State, bufIsAbc, LATB0, LATB7, TRISB,
                 GIEH, TMR0IE, TMR0IF, TMR0IP, IPEN, TMR0ON, caller, rmw>>

\* mutant: line 134 writes INTCON = 0xA0, which also sets GIEH
M134_EnablesGIEH ==
  /\ MainRuns /\ pc = "m134"
  /\ GIEH' = 1 /\ TMR0IE' = 1 /\ TMR0IF' = 0
  /\ pc' = "m135"
  /\ h' = [h EXCEPT !.init = Append(@, "m134")]
  /\ UNCHANGED <<hpc, loop, flg, cpy, state, State, bufIsAbc, Flags, LATB0, LATB7,
                 TRISB, TMR0IP, IPEN, TMR0ON, caller, rmw>>

\* line 134: INTCON = 0x20;  (GIEH = 0, TMR0IE = 1, TMR0IF = 0)
M134_INTCON ==
  /\ MainRuns /\ pc = "m134"
  /\ GIEH' = 0 /\ TMR0IE' = 1 /\ TMR0IF' = 0
  /\ pc' = "m135"
  /\ h' = [h EXCEPT !.init = Append(@, "m134")]
  /\ UNCHANGED <<hpc, loop, flg, cpy, state, State, bufIsAbc, Flags, LATB0, LATB7,
                 TRISB, TMR0IP, IPEN, TMR0ON, caller, rmw>>

\* line 135: INTCON2 = 0x84;  (TMR0IP = 1)
M135_INTCON2 ==
  /\ MainRuns /\ pc = "m135"
  /\ TMR0IP' = 1
  /\ pc' = "m136"
  /\ h' = [h EXCEPT !.init = Append(@, "m135")]
  /\ UNCHANGED <<hpc, loop, flg, cpy, state, State, bufIsAbc, Flags, LATB0, LATB7,
                 TRISB, GIEH, TMR0IE, TMR0IF, IPEN, TMR0ON, caller, rmw>>

\* line 136: RCONbits.IPEN = 1;
M136_IPEN ==
  /\ MainRuns /\ pc = "m136"
  /\ IPEN' = 1
  /\ pc' = "m137"
  /\ h' = [h EXCEPT !.init = Append(@, "m136")]
  /\ UNCHANGED <<hpc, loop, flg, cpy, state, State, bufIsAbc, Flags, LATB0, LATB7,
                 TRISB, GIEH, TMR0IE, TMR0IF, TMR0IP, TMR0ON, caller, rmw>>

\* lines 137-138: TMR0H = 0; TMR0L = 0;  (the count itself is not modelled)
M137_TMR0 ==
  /\ MainRuns /\ pc = "m137"
  /\ pc' = "m139"
  /\ h' = [h EXCEPT !.init = Append(@, "m137")]
  /\ UNCHANGED <<hpc, loop, flg, cpy, state, State, bufIsAbc, Flags, LATB0, LATB7,
                 TRISB, GIEH, TMR0IE, TMR0IF, TMR0IP, IPEN, TMR0ON, caller, rmw>>

\* line 139: T0CON = 0x82;  (TMR0ON = 1: the timer runs)
M139_T0CON ==
  /\ MainRuns /\ pc = "m139"
  /\ TMR0ON' = 1
  /\ pc' = "m140"
  /\ h' = [h EXCEPT !.init = Append(@, "m139")]
  /\ UNCHANGED <<hpc, loop, flg, cpy, state, State, bufIsAbc, Flags, LATB0, LATB7,
                 TRISB, GIEH, TMR0IE, TMR0IF, TMR0IP, IPEN, caller, rmw>>

\* mutant: doloop is called right after line 140, before line 141
M140_ThenDoloop ==
  /\ MainRuns /\ pc = "m140"
  /\ GIEH' = 1
  /\ loop' = 1
  /\ pc' = "l109"
  /\ h' = [h EXCEPT !.init = Append(@, "m140")]
  /\ UNCHANGED <<hpc, flg, cpy, state, State, bufIsAbc, Flags, LATB0, LATB7,
                 TRISB, TMR0IE, TMR0IF, TMR0IP, IPEN, TMR0ON, caller, rmw>>

\* line 140: INTCONbits.GIEH = 1;
M140_GIEH ==
  /\ MainRuns /\ pc = "m140"
  /\ GIEH' = 1
  /\ pc' = "m141"
  /\ h' = [h EXCEPT !.init = Append(@, "m140")]
  /\ UNCHANGED <<hpc, loop, flg, cpy, state, State, bufIsAbc, Flags, LATB0, LATB7,
                 TRISB, TMR0IE, TMR0IF, TMR0IP, IPEN, TMR0ON, caller, rmw>>

\* line 141: TRISB = 0;
M141_TRISB ==
  /\ MainRuns /\ pc = "m141"
  /\ TRISB' = 0
  /\ pc' = "m143"
  /\ h' = [h EXCEPT !.init = Append(@, "m141")]
  /\ UNCHANGED <<hpc, loop, flg, cpy, state, State, bufIsAbc, Flags, LATB0, LATB7,
                 GIEH, TMR0IE, TMR0IF, TMR0IP, IPEN, TMR0ON, caller, rmw>>

\* line 143: doloop(1);
M143_CallDoloop ==
  /\ MainRuns /\ pc = "m143"
  /\ loop' = 1
  /\ pc' = "l109"
  /\ h' = [h EXCEPT !.init = Append(@, "m143")]
  /\ UNCHANGED <<hpc, flg, cpy, state, State, bufIsAbc, Flags, LATB0, LATB7, TRISB,
                 GIEH, TMR0IE, TMR0IF, TMR0IP, IPEN, TMR0ON, caller, rmw>>

\* ----------------------------------------------------------------- doloop
\* line 109: while (loop), taken: an iteration begins
L109_While ==
  /\ MainRuns /\ pc = "l109"
  /\ LoopContinues(loop)
  /\ pc' = "l111"
  /\ h' = [h EXCEPT !.nIter = Sat(@),
                    !.hAtBegin = h.nHandled,
                    !.scen = ScenStep(@, "B"),
                    !.lag = IF @ = "wait" THEN "in" ELSE @,
                    !.idleIter = h.cleared /\ ~h.ovfSince]
  /\ UNCHANGED <<hpc, loop, flg, cpy, state, State, bufIsAbc, Flags, LATB0, LATB7,
                 TRISB, GIEH, TMR0IE, TMR0IF, TMR0IP, IPEN, TMR0ON, caller, rmw>>

\* line 109: while (loop), not taken: doloop returns to its caller
L109_Return ==
  /\ MainRuns /\ pc = "l109"
  /\ ~LoopContinues(loop)
  /\ pc' = IF caller = "main" THEN "m145" ELSE "ret"
  /\ UNCHANGED <<hpc, loop, flg, cpy, state, State, bufIsAbc, Flags, LATB0, LATB7,
                 TRISB, GIEH, TMR0IE, TMR0IF, TMR0IP, IPEN, TMR0ON, caller, rmw, h>>

\* line 111: flg = getFlags();
L111_GetFlags ==
  /\ MainRuns /\ pc = "l111"
  /\ flg' = getFlags
  /\ pc' = "l112"
  /\ h' = [h EXCEPT !.obsA = LATB0,
                    !.obsH = h.nHandled,
                    !.nObs = IF Timeout(Flags) = 1 THEN @ + 1 ELSE @,
                    !.pend = IF Timeout(Flags) = 1 THEN 0 ELSE @,
                    !.seenTwice = h.lastSeen /\ Timeout(Flags) = 1,
                    !.hBetween = h.hSinceRead,
                    !.lastSeen = (Timeout(Flags) = 1),
                    !.hSinceRead = FALSE,
                    !.caught = h.missed,
                    !.missed = FALSE]
  /\ UNCHANGED <<hpc, loop, cpy, state, State, bufIsAbc, Flags, LATB0, LATB7, TRISB,
                 GIEH, TMR0IE, TMR0IF, TMR0IP, IPEN, TMR0ON, caller, rmw>>

\* mutant: line 112 tests the live flag, Flags.Bit.Timeout, not the copy
L112_TestLive ==
  /\ MainRuns /\ pc = "l112"
  /\ pc' = IF TimeoutSeen(Flags) THEN "l114" ELSE "l119"
  /\ UNCHANGED <<hpc, loop, flg, cpy, state, State, bufIsAbc, Flags, LATB0, LATB7,
                 TRISB, GIEH, TMR0IE, TMR0IF, TMR0IP, IPEN, TMR0ON, caller, rmw, h>>

\* line 112: if (flg.Bit.Timeout == 1)
L112_Test ==
  /\ MainRuns /\ pc = "l112"
  /\ pc' = IF TimeoutSeen(flg) THEN "l114" ELSE "l119"
  /\ UNCHANGED <<hpc, loop, flg, cpy, state, State, bufIsAbc, Flags, LATB0, LATB7,
                 TRISB, GIEH, TMR0IE, TMR0IF, TMR0IP, IPEN, TMR0ON, caller, rmw, h>>

\* line 114: state = Running;
L114_Running ==
  /\ MainRuns /\ pc = "l114"
  /\ state' = "Running"
  /\ pc' = "l115"
  /\ UNCHANGED <<hpc, loop, flg, cpy, State, bufIsAbc, Flags, LATB0, LATB7, TRISB,
                 GIEH, TMR0IE, TMR0IF, TMR0IP, IPEN, TMR0ON, caller, rmw, h>>

\* line 115: Flags.Bit.Timeout = 0;  (C18 emits one bit-clear instruction for a
\* one-bit field; were it a read-modify-write of the byte, the result would be
\* the same, since the handler writes no other bit of Flags)
L115_ClearTimeout ==
  /\ MainRuns /\ pc = "l115"
  /\ Flags' = ClearTimeout(Flags)
  /\ pc' = "l116"
  /\ h' = [h EXCEPT !.ovfSince = FALSE, !.cleared = TRUE]
  /\ UNCHANGED <<hpc, loop, flg, cpy, state, State, bufIsAbc, LATB0, LATB7, TRISB,
                 GIEH, TMR0IE, TMR0IF, TMR0IP, IPEN, TMR0ON, caller, rmw>>

\* line 115 as a byte-wide read-modify-write, first half: the Flags byte is
\* read.  (C leaves the width of a bit-field store to the compiler; this form
\* is kept beside the one-instruction form so that nothing rests on it.)
L115_ReadByte ==
  /\ MainRuns /\ pc = "l115"
  /\ rmw' = Flags
  /\ pc' = "l115w"
  /\ UNCHANGED <<hpc, loop, flg, cpy, state, State, bufIsAbc, Flags, LATB0, LATB7,
                 TRISB, GIEH, TMR0IE, TMR0IF, TMR0IP, IPEN, TMR0ON, caller, h>>

\* line 115 as a byte-wide read-modify-write, second half: the byte read is
\* written back with bit 0 cleared
L115_WriteByte ==
  /\ MainRuns /\ pc = "l115w"
  /\ Flags' = ClearTimeout(rmw)
  /\ rmw' = 0
  /\ pc' = "l116"
  /\ h' = [h EXCEPT !.ovfSince = FALSE, !.cleared = TRUE]
  /\ UNCHANGED <<hpc, loop, flg, cpy, state, State, bufIsAbc, LATB0, LATB7, TRISB,
                 GIEH, TMR0IE, TMR0IF, TMR0IP, IPEN, TMR0ON, caller>>

\* line 116, first half: the bit test of LATBbits.LATB0
L116_ReadLATB0 ==
  /\ MainRuns /\ pc = "l116"
  /\ cpy' = LATB0
  /\ pc' = "l116w"
  /\ h' = [h EXCEPT !.cpyH = h.nHandled]
  /\ UNCHANGED <<hpc, loop, flg, state, State, bufIsAbc, Flags, LATB0, LATB7, TRISB,
                 GIEH, TMR0IE, TMR0IF, TMR0IP, IPEN, TMR0ON, caller, rmw>>

\* mutant: line 116 writes the whole port latch back from a stale copy, so that
\* LATB0 gets the value it had when line 116 read it
L116_WriteStaleLatch ==
  /\ MainRuns /\ pc = "l116w"
  /\ LATB7' = cpy
  /\ LATB0' = cpy
  /\ pc' = "l120"
  /\ UNCHANGED <<hpc, loop, flg, cpy, state, State, bufIsAbc, Flags, TRISB,
                 GIEH, TMR0IE, TMR0IF, TMR0IP, IPEN, TMR0ON, caller, rmw, h>>

\* mutant: line 116 copies the complement of LATB0
L116_WriteInverted ==
  /\ MainRuns /\ pc = "l116w"
  /\ LATB7' = 1 - cpy
  /\ pc' = "l120"
  /\ UNCHANGED <<hpc, loop, flg, cpy, state, State, bufIsAbc, Flags, LATB0, TRISB,
                 GIEH, TMR0IE, TMR0IF, TMR0IP, IPEN, TMR0ON, caller, rmw, h>>

\* line 116, second half: the bit set or bit clear of LATBbits.LATB7 (a store
\* to one bit of a special function register is one BSF or BCF instruction,
\* which leaves the other latch bits alone)
L116_WriteLATB7 ==
  /\ MainRuns /\ pc = "l116w"
  /\ LATB7' = cpy
  /\ pc' = "l120"
  /\ UNCHANGED <<hpc, loop, flg, cpy, state, State, bufIsAbc, Flags, LATB0, TRISB,
                 GIEH, TMR0IE, TMR0IF, TMR0IP, IPEN, TMR0ON, caller, rmw, h>>

\* line 119: state = Stopped;
L119_Stopped ==
  /\ MainRuns /\ pc = "l119"
  /\ state' = "Stopped"
  /\ pc' = "l120"
  /\ UNCHANGED <<hpc, loop, flg, cpy, State, bufIsAbc, Flags, LATB0, LATB7, TRISB,
                 GIEH, TMR0IE, TMR0IF, TMR0IP, IPEN, TMR0ON, caller, rmw, h>>

\* lines 120-123: if (strcmp("abc", buffer) == 0) strncpy(buffer+3, "def", 3);
\* after the copy buffer starts with "abcdef" and no longer equals "abc"
L120_Strcmp ==
  /\ MainRuns /\ pc = "l120"
  /\ bufIsAbc' = IF bufIsAbc THEN FALSE ELSE bufIsAbc
  /\ pc' = "l124"
  /\ UNCHANGED <<hpc, loop, flg, cpy, state, State, Flags, LATB0, LATB7, TRISB,
                 GIEH, TMR0IE, TMR0IF, TMR0IP, IPEN, TMR0ON, caller, rmw, h>>

\* line 124: State = state;  the iteration ends
L124_State ==
  /\ MainRuns /\ pc = "l124"
  /\ State' = state
  /\ pc' = "l109"
  /\ h' = [h EXCEPT !.nDone = Sat(@),
                    !.obsA = 0, !.obsH = 0, !.cpyH = 0,
                    !.scen = ScenStep(@, "E"),
                    !.lag = IF @ = "in" THEN "done" ELSE @]
  /\ UNCHANGED <<hpc, loop, flg, cpy, state, bufIsAbc, Flags, LATB0, LATB7, TRISB,
                 GIEH, TMR0IE, TMR0IF, TMR0IP, IPEN, TMR0ON, caller, rmw>>

\* ------------------------------------------------------------------ timer
\* The running timer wraps: the hardware raises TMR0IF.  TMR0IF is a latch, so
\* the event the program can see is its 0 -> 1 transition; that is what is
\* counted as an overflow event.
Overflow ==
  /\ TMR0ON = 1
  /\ TMR0IF = 0
  /\ h.nOvf < MaxOverflows
  /\ TMR0IF' = 1
  /\ h' = [h EXCEPT !.nOvf = @ + 1,
                    !.ovfSince = TRUE,
                    !.idleIter = FALSE,
                    !.lag = "hdl"]
  /\ UNCHANGED <<pc, hpc, loop, flg, cpy, state, State, bufIsAbc, Flags, LATB0,
                 LATB7, TRISB, GIEH, TMR0IE, TMR0IP, IPEN, TMR0ON, caller, rmw>>

\* --------------------------------------------------- InterruptHandlerHigh
\* The CPU takes the high-priority interrupt: GIEH is cleared and execution
\* continues at the vector (line 154: goto InterruptHandlerHigh).
Interrupt ==
  /\ hpc = "idle"
  /\ IntPending
  /\ GIEH' = 0
  /\ hpc' = "h166"
  /\ UNCHANGED <<pc, loop, flg, cpy, state, State, bufIsAbc, Flags, LATB0, LATB7,
                 TRISB, TMR0IE, TMR0IF, TMR0IP, IPEN, TMR0ON, caller, rmw, h>>

\* line 166: if (INTCONbits.TMR0IF)
H166_Test ==
  /\ hpc = "h166"
  /\ hpc' = IF TMR0IF = 1 THEN "h168" ELSE "h172"
  /\ h' = [h EXCEPT !.hs = Snapshot, !.hw = <<>>, !.hAt = pc]
  /\ UNCHANGED <<pc, loop, flg, cpy, state, State, bufIsAbc, Flags, LATB0, LATB7,
                 TRISB, GIEH, TMR0IE, TMR0IF, TMR0IP, IPEN, TMR0ON, caller, rmw>>

\* mutant: line 168 is missing, TMR0IF stays set
H168_KeepsTMR0IF ==
  /\ hpc = "h168"
  /\ TMR0IF' = TMR0IF
  /\ hpc' = "h169"
  /\ h' = [h EXCEPT !.hw = Append(@, <<"TMR0IF", TMR0IF'>>), !.nHandled = @ + 1]
  /\ UNCHANGED <<pc, loop, flg, cpy, state, State, bufIsAbc, Flags, LATB0, LATB7,
                 TRISB, GIEH, TMR0IE, TMR0IP, IPEN, TMR0ON, caller, rmw>>

\* line 168: INTCONbits.TMR0IF = 0;
H168_ClearTMR0IF ==
  /\ hpc = "h168"
  /\ TMR0IF' = 0
  /\ hpc' = "h169"
  /\ h' = [h EXCEPT !.hw = Append(@, <<"TMR0IF", TMR0IF'>>), !.nHandled = @ + 1]
  /\ UNCHANGED <<pc, loop, flg, cpy, state, State, bufIsAbc, Flags, LATB0, LATB7,
                 TRISB, GIEH, TMR0IE, TMR0IP, IPEN, TMR0ON, caller, rmw>>

\* mutant: line 169 assigns the whole byte (Flags.Byte = 1)
H169_SetWholeByte ==
  /\ hpc = "h169"
  /\ Flags' = 1
  /\ hpc' = "h170"
  /\ h' = [h EXCEPT !.hw = Append(@, <<"Timeout", Timeout(Flags')>>),
                    !.nRaise = IF Timeout(Flags) = 0 THEN @ + 1 ELSE @,
                    !.pend = @ + 1,
                    !.hSinceRead = TRUE]
  /\ UNCHANGED <<pc, loop, flg, cpy, state, State, bufIsAbc, LATB0, LATB7, TRISB,
                 GIEH, TMR0IE, TMR0IF, TMR0IP, IPEN, TMR0ON, caller, rmw>>

\* line 169: Flags.Bit.Timeout = 1;
H169_SetTimeout ==
  /\ hpc = "h169"
  /\ Flags' = SetTimeout(Flags)
  /\ hpc' = "h170"
  /\ h' = [h EXCEPT !.hw = Append(@, <<"Timeout", Timeout(Flags')>>),
                    !.nRaise = IF Timeout(Flags) = 0 THEN @ + 1 ELSE @,
                    !.pend = @ + 1,
                    !.hSinceRead = TRUE,
                    !.missed = @ \/ (AfterSnapshot /\ ~TimeoutSeen(flg))]
  /\ UNCHANGED <<pc, loop, flg, cpy, state, State, bufIsAbc, LATB0, LATB7, TRISB,
                 GIEH, TMR0IE, TMR0IF, TMR0IP, IPEN, TMR0ON, caller, rmw>>

\* line 170: LATBbits.LATB0 = !LATBbits.LATB0;
H170_ToggleLATB0 ==
  /\ hpc = "h170"
  /\ LATB0' = Not(LATB0)
  /\ hpc' = "h172"
  /\ h' = [h EXCEPT !.hw = Append(@, <<"LATB0", LATB0'>>)]
  /\ UNCHANGED <<pc, loop, flg, cpy, state, State, bufIsAbc, Flags, LATB7, TRISB,
                 GIEH, TMR0IE, TMR0IF, TMR0IP, IPEN, TMR0ON, caller, rmw>>

\* line 172: return from interrupt; the hardware sets GIEH again
H172_Return ==
  /\ hpc = "h172"
  /\ GIEH' = 1
  /\ hpc' = "idle"
  /\ h' = [h EXCEPT !.scen = IF h.hw # <<>>
                              THEN ScenStep(@, IF InIteration THEN "X" ELSE "O")
                              ELSE @,
                    !.lag = IF h.hw # <<>> THEN "wait" ELSE @,
                    !.hs = <<>>, !.hw = <<>>]
  /\ UNCHANGED <<pc, loop, flg, cpy, state, State, bufIsAbc, Flags, LATB0, LATB7,
                 TRISB, TMR0IE, TMR0IF, TMR0IP, IPEN, TMR0ON, caller, rmw>>

\* ---------------------------------------------------------- specifications
MainStep ==
  \/ M133_ZeroFlags \/ M134_INTCON \/ M135_INTCON2 \/ M136_IPEN \/ M137_TMR0
  \/ M139_T0CON \/ M140_GIEH \/ M141_TRISB \/ M143_CallDoloop

LoopStep ==
  \/ L109_While \/ L111_GetFlags \/ L112_Test \/ L114_Running
  \/ L115_ClearTimeout \/ L115_ReadByte \/ L115_WriteByte \/ L116_ReadLATB0 \/ L116_WriteLATB7 \/ L119_Stopped
  \/ L120_Strcmp \/ L124_State

HandlerStep ==
  \/ Interrupt \/ H166_Test \/ H168_ClearTMR0IF \/ H169_SetTimeout
  \/ H170_ToggleLATB0 \/ H172_Return

\* The program as built: main calls doloop(1), so the exit of the while loop is
\* never taken (L109_Return is part of HarnessNext below).
Next == MainStep \/ LoopStep \/ HandlerStep \/ Overflow

Spec == Init /\ [][Next]_vars

\* The CPU always executes its next instruction: main and the loop when no
\* interrupt is being served, the handler otherwise.  Overflows are not forced.
FairSpec == Spec /\ WF_vars(MainStep \/ LoopStep) /\ WF_vars(HandlerStep)

\* doloop and InterruptHandlerHigh are external functions: besides the program
\* as built, a harness may call doloop with any argument, or the handler
\* directly, on a machine whose timer interrupt is set up as main sets it up.
InitHarness ==
  /\ pc = "l109"
  /\ hpc \in {"idle", "h166"}
  /\ caller = "harness"
  /\ loop \in {0, 1}
  /\ flg = 0 /\ cpy = 0 /\ rmw = 0
  /\ state = "Running" /\ State = "Running"
  /\ bufIsAbc \in BOOLEAN
  /\ Flags \in 0..MaxPowerOnByte
  /\ LATB0 \in {0, 1}
  /\ LATB7 \in {0, 1}
  /\ TRISB = 0
  /\ GIEH = (IF hpc = "idle" THEN 1 ELSE 0)
  /\ TMR0IE = 1 /\ TMR0IP = 1 /\ IPEN = 1
  /\ TMR0IF \in (IF hpc = "idle" THEN {0} ELSE {0, 1})
  /\ TMR0ON = 1
  /\ h = HInit(LATB0, LATB7, Flags)

HarnessNext == Next \/ L109_Return

\* the program as built together with the harness calls
HarnessSpec == (Init \/ InitHarness) /\ [][HarnessNext]_vars

FairHarnessSpec ==
  HarnessSpec /\ WF_vars(MainStep \/ LoopStep \/ L109_Return) /\ WF_vars(HandlerStep)

\* ================================================================ properties
\* nothing is pending: no handler is executing and no overflow awaits service
Quiet == hpc = "idle" /\ TMR0IF = 0

C2_SetInWindowNotDropped ==
  (hpc = "idle" /\ h.pend > 0) => Timeout(Flags) = 1

\* ----------------------------------------------------------------------- C3
\* C3 as stated: when an iteration that observed Timeout set is over, LATB7
\* equals the value LATB0 had at the flag read, wherever the handler ran.
C3_MirrorsObservedValue ==
  (pc = "l124" /\ TimeoutSeen(flg)) => LATB7 = h.obsA

\* C3 amended: when an iteration that observed Timeout set is over, LATB7 equals
\* the value LATB0 had when line 116 read it; that is the value LATB0 had at the
\* flag read whenever no handler execution fell between the flag read and the
\* read of line 116, and the value LATB0 still has whenever no handler
\* execution followed that read.
C3_MirrorsCopiedValue ==
  (pc = "l124" /\ TimeoutSeen(flg)) =>
     /\ LATB7 = cpy
     /\ (h.cpyH = h.obsH => LATB7 = h.obsA)
     /\ (h.cpyH = h.nHandled /\ hpc = "idle" => LATB7 = LATB0)

\* an observing iteration is over, the handler ran in it after line 116 read
\* LATB0 but not between the flag read and that read
C3_Witness ==
  /\ pc = "l124" /\ TimeoutSeen(flg)
  /\ h.cpyH = h.obsH /\ h.nHandled > h.cpyH
  /\ LATB7 = h.obsA /\ LATB7 # LATB0

\* ----------------------------------------------------------------------- C4
\* C4: once N overflow events have occurred and been served, LATB0 is its
\* initial value XOR (N mod 2), wherever the main loop stands.
C4_Toggle ==
  Quiet => LATB0 = (h.a0 + h.nOvf) % 2

\* two overflows served, the second between the two halves of line 116
C4_Witness ==
  /\ Quiet /\ h.nOvf = 2 /\ h.hAt = "l116w" /\ pc = "l120"

\* ----------------------------------------------------------------------- C5
\* C5: in an iteration that began after the flag was observed and cleared with
\* no overflow since, and until the next overflow, the flag is clear and no
\* step changes LATB7 or the flag byte.
C5_Idle ==
  /\ [](h.idleIter => Timeout(Flags) = 0)
  /\ [][h.idleIter => (LATB7' = LATB7 /\ Flags' = Flags)]_vars

\* such an iteration has run to its end through the else branch
C5_Witness ==
  /\ h.idleIter /\ pc = "l124" /\ state = "Stopped" /\ h.nObs > 0

\* ----------------------------------------------------------------------- C6
\* C6: when two overflows have been handled before the first main-loop
\* iteration begins, LATB0 is back at its initial value with the flag set; and
\* when that first iteration is over with no further overflow, the flag is
\* clear and LATB7 equals LATB0.
C6_HandlerOutrunsLoop ==
  /\ (Quiet /\ h.nIter = 0 /\ h.nHandled = 2 /\ h.nOvf = 2) =>
        (LATB0 = h.a0 /\ Timeout(Flags) = 1)
  /\ (Quiet /\ pc = "l109" /\ h.nDone = 1 /\ h.hAtBegin = 2 /\ h.nOvf = 2) =>
        (Timeout(Flags) = 0 /\ LATB7 = LATB0 /\ LATB0 = h.a0)

\* the first iteration is over; both overflows were handled before it began and
\* LATB7 started different from LATB0
C6_Witness ==
  /\ Quiet /\ pc = "l109" /\ h.nDone = 1 /\ h.hAtBegin = 2 /\ h.nOvf = 2
  /\ h.a0 # h.b0

\* ----------------------------------------------------------------------- C7
\* C7: from LATB0 = 0, LATB7 = 0 and the flag clear, the sequence overflow,
\* iteration, overflow, iteration gives LATB0 = 1 with the flag set, then
\* LATB7 = 1 with the flag clear, then LATB0 = 0 with the flag set, and ends
\* with LATB0 = 0, LATB7 = 0 and the flag clear.
C7_Scenario ==
  (h.a0 = 0 /\ h.b0 = 0 /\ hpc = "idle") =>
     /\ (h.scen = 1 => LATB0 = 1 /\ LATB7 = 0 /\ Timeout(Flags) = 1)
     /\ (h.scen = 3 => LATB0 = 1 /\ LATB7 = 1 /\ Timeout(Flags) = 0)
     /\ (h.scen = 4 => LATB0 = 0 /\ LATB7 = 1 /\ Timeout(Flags) = 1)
     /\ (h.scen = 6 => LATB0 = 0 /\ LATB7 = 0 /\ Timeout(Flags) = 0)

\* the scenario has run to its end
C7_Witness ==
  /\ h.a0 = 0 /\ h.b0 = 0 /\ hpc = "idle" /\ h.scen = 6 /\ h.nOvf = 2

\* ----------------------------------------------------------------------- C8
\* C8: once a main-loop iteration that began after the handler's return is
\* over, with no overflow since the one handled, LATB7 equals LATB0.
C8_LagsByOneIteration ==
  h.lag = "done" => LATB7 = LATB0

\* the handler ran between the two halves of line 116, so that the iteration it
\* interrupted left LATB7 stale, and the next iteration is over
C8_Witness ==
  /\ h.lag = "done" /\ h.hAt = "l116w" /\ pc = "l109"

\* ----------------------------------------------------------------------- C9
\* what InterruptHandlerHigh must leave as it found it
Frame(r) == [r EXCEPT !.TMR0IF = 0, !.Flags = 0, !.LATB0 = 0]

\* C9: a handler execution that finds TMR0IF set writes TMR0IF = 0, then
\* Timeout = 1, then LATB0 inverted, and nothing else; one that finds TMR0IF
\* clear writes nothing.
C9_HandlerEffects ==
  (hpc \in {"h168", "h169", "h170", "h172"}) =>
     /\ Frame(Snapshot) = Frame(h.hs)
     /\ Flags \div 2 = h.hs.Flags \div 2
     /\ h.hs.TMR0IF = 0 =>
           /\ hpc = "h172" /\ h.hw = <<>>
           /\ Flags = h.hs.Flags /\ LATB0 = h.hs.LATB0
     /\ h.hs.TMR0IF = 1 =>
           /\ h.hw = SubSeq(<< <<"TMR0IF", 0>>, <<"Timeout", 1>>,
                               <<"LATB0", 1 - h.hs.LATB0>> >>, 1, Len(h.hw))
           /\ Len(h.hw) = (CASE hpc = "h168" -> 0 [] hpc = "h169" -> 1
                             [] hpc = "h170" -> 2 [] hpc = "h172" -> 3)
           /\ Timeout(Flags) = (IF Len(h.hw) >= 2 THEN 1 ELSE Timeout(h.hs.Flags))
           /\ LATB0 = (IF Len(h.hw) = 3 THEN 1 - h.hs.LATB0 ELSE h.hs.LATB0)

\* the handler body has run to its end, from a state with the flag clear and
\* LATB7 different from LATB0
C9_Witness ==
  /\ hpc = "h172" /\ h.hs.TMR0IF = 1 /\ Len(h.hw) = 3
  /\ Timeout(h.hs.Flags) = 0 /\ h.hs.LATB7 # h.hs.LATB0

\* ---------------------------------------------------------------------- C10
\* C10: no step changes doloop's argument; a call with a non-zero argument,
\* main's among them, never returns, each of its iterations ends and a new one
\* begins again and again; a call with argument 0 begins no iteration and
\* leaves LATB7 and the flag byte to the handler alone.
C10_LoopRunsWhileContinue ==
  /\ [][pc # "m143" => loop' = loop]_vars
  /\ [](pc # "m145")
  /\ [](loop # 0 => pc # "ret")
  /\ ((pc = "l111") ~> (pc = "l109"))
  /\ ((loop # 0 \/ caller = "main") ~> (pc = "l111"))
  /\ [](caller = "harness" /\ loop = 0 =>
          /\ pc \in {"l109", "ret"}
          /\ h.nIter = 0
          /\ LATB7 = h.b0
          /\ Flags \in {h.f0, SetTimeout(h.f0)}
          /\ (h.nHandled = 0 => Flags = h.f0))

\* main's call is in its third iteration
C10_Witness ==
  /\ caller = "main" /\ loop = 1 /\ h.nDone = 2 /\ pc = "l111"

\* ---------------------------------------------------------------------- C11
\* main's statements before the loop (lines 133-143)
InitPcs == {"m133", "m134", "m135", "m136", "m137", "m139", "m140", "m141", "m143"}

\* C11: the Timeout bit goes from 0 to 1 only in line 169 of the handler, and,
\* once line 133 has run, from 1 to 0 only in line 115 of doloop, in its
\* one-instruction or its byte-wide form; no handler step lowers the bit and no
\* step of main or doloop raises it.
C11_FlagWriters ==
  [][/\ (Timeout(Flags) = 0 /\ Timeout(Flags') = 1) => hpc = "h169"
     /\ (Timeout(Flags) = 1 /\ Timeout(Flags') = 0 /\ pc # "m133") =>
           (hpc = "idle" /\ pc \in {"l115", "l115w"})
     /\ (hpc # "idle") => Timeout(Flags') >= Timeout(Flags)
     /\ (hpc = "idle" /\ hpc' = "idle") => Timeout(Flags') <= Timeout(Flags)]_vars

\* the byte-wide clear has completed with a handler execution between its
\* read and its write
C11_Witness ==
  /\ pc = "l116" /\ h.hAt = "l115w" /\ Timeout(Flags) = 0 /\ hpc = "idle"

\* ---------------------------------------------------------------------- C12
\* C12: LATB0 changes only in line 170 of the handler, and LATB7 only in the
\* write of line 116; in particular the write of line 116 leaves LATB0 as the
\* handler left it.
C12_LedWriters ==
  [][/\ (LATB0' # LATB0) => hpc = "h170"
     /\ (LATB7' # LATB7) => (hpc = "idle" /\ pc = "l116w")
     /\ (pc = "l116w" /\ pc' = "l120") => LATB0' = LATB0]_vars

\* line 116 has written LATB7 after a handler execution that fell between its
\* read and its write, and LATB0 keeps the handler's toggle
C12_Witness ==
  /\ pc = "l120" /\ h.hAt = "l116w" /\ hpc = "idle" /\ TimeoutSeen(flg)
  /\ LATB0 # cpy /\ LATB7 = cpy

\* ---------------------------------------------------------------------- C13
\* C13: the iterations that observed Timeout set never outnumber the handler
\* executions that set it, and when two consecutive flag reads both see it
\* set, line 169 ran between them.
C13_NoSetObservedTwice ==
  /\ h.nObs <= h.nHandled
  /\ (h.seenTwice => h.hBetween)

\* two consecutive iterations have observed the flag set
C13_Witness ==
  /\ pc = "l112" /\ h.seenTwice /\ h.hBetween /\ h.nObs = 2

\* ---------------------------------------------------------------------- C14
\* C14: the handler body never runs more often than the timer has overflowed;
\* once every overflow has been served TMR0IF is clear, so that on the
\* handler's return main and doloop run until the next overflow.
C14_NoRetrigger ==
  /\ h.nHandled <= h.nOvf
  /\ (h.nHandled = h.nOvf => TMR0IF = 0)
  /\ (h.nHandled = h.nOvf /\ hpc = "idle") => (MainRuns /\ ENABLED (MainStep \/ LoopStep))

\* doloop has taken steps since the first handler execution and a second one
\* has now returned
C14_Witness ==
  /\ h.nHandled = 2 /\ h.nOvf = 2 /\ hpc = "idle" /\ h.nObs = 1 /\ h.hAt = "l119"

\* ---------------------------------------------------------------------- C15
\* the statements of main before the loop, in program order
InitOrder == <<"m133", "m134", "m135", "m136", "m137", "m139", "m140", "m141",
               "m143">>

\* C15: in the program as built, while main is before the loop, the statements
\* executed are those that precede its position, each once and in order, and
\* no iteration has begun; once in doloop, all of them have run exactly once,
\* the timer, the interrupt and the port direction are set up, and no step
\* (the exit of line 109 included) leads back into them.
C15_InitOnce ==
  /\ [](pc \in InitPcs =>
          /\ h.nIter = 0
          /\ Len(h.init) < Len(InitOrder)
          /\ h.init = SubSeq(InitOrder, 1, Len(h.init))
          /\ pc = InitOrder[Len(h.init) + 1])
  /\ [](pc \notin InitPcs /\ caller = "main" =>
          /\ h.init = InitOrder
          /\ TMR0IE = 1 /\ TMR0IP = 1 /\ IPEN = 1 /\ TMR0ON = 1 /\ TRISB = 0)
  /\ [][pc \notin InitPcs => pc' \notin InitPcs]_vars

\* the second iteration has begun
C15_Witness ==
  /\ pc = "l111" /\ h.nDone = 1 /\ h.init = InitOrder /\ caller = "main"

\* ---------------------------------------------------------------------- C16
\* main's statements up to and including the one that sets GIEH (lines 133-140)
PreGIEH == {"m133", "m134", "m135", "m136", "m137", "m139", "m140"}

\* C16: the handler runs only after line 140, hence after Flags.Byte = 0 (line
\* 133) and the start of the timer (line 139); so when line 133 runs no
\* handler has run and no Timeout raised by the handler is erased by it.
C16_NoHandlerBeforeGIEH ==
  /\ (hpc # "idle" \/ h.nHandled > 0) =>
        (pc \notin PreGIEH /\ SubSeq(h.init, 1, 7) = SubSeq(InitOrder, 1, 7))
  /\ pc \in PreGIEH => (hpc = "idle" /\ h.nRaise = 0 /\ h.nHandled = 0)

\* the handler is running while main stands before TRISB = 0 (line 141): an
\* overflow that occurred between lines 139 and 140 is served as soon as GIEH
\* is set
C16_Witness ==
  /\ hpc = "h170" /\ pc = "m141" /\ TRISB = 255 /\ Timeout(Flags) = 1

\* ---------------------------------------------------------------------- C17
\* the main loop stands between the flag clear of line 115 and the completion
\* of the LED copy of line 116 of the same iteration
InCopyWindow == pc \in {"l116", "l116w"}

\* C17: if LATB0 and LATB7 are equal at start-up, then in every state in which
\* Timeout is clear and the main loop is not between its flag clear and the
\* completion of the LED copy, LATB7 = LATB0.
C17_LedsEqualWhenClear ==
  (h.a0 = h.b0 /\ Timeout(Flags) = 0 /\ ~InCopyWindow) => LATB7 = LATB0

\* an overflow has been handled (LATB0 toggled away from its start value) and
\* the iteration that saw it has cleared the flag and finished the copy
C17_Witness ==
  /\ h.a0 = h.b0 /\ h.nHandled = 1 /\ hpc = "idle" /\ pc = "l120"
  /\ TimeoutSeen(flg) /\ Timeout(Flags) = 0 /\ LATB7 = LATB0 /\ LATB0 # h.a0

\* ---------------------------------------------------------------------- C18
\* Timeout is clear and LATB7 shows the value of LATB0
Stable == Timeout(Flags) = 0 /\ LATB7 = LATB0

\* C18: every behaviour has finitely many overflows (at most MaxOverflows); if
\* at least one of them has been handled then, the main loop being weakly
\* fair, the system eventually reaches and stays forever in a state with
\* Timeout clear and LATB7 = LATB0.
C18_Stabilises ==
  <>[](h.nHandled = 0 \/ Stable)

\* the LEDs differed at start-up, the last overflow has been handled, and the
\* loop stands at line 109 with Timeout clear and the LEDs equal
C18_Witness ==
  /\ h.a0 # h.b0 /\ h.nOvf = MaxOverflows /\ h.nHandled = MaxOverflows
  /\ Quiet /\ pc = "l109" /\ h.nDone >= 1 /\ Stable

\* ---------------------------------------------------------------------- C19
\* C19: flg is written by line 111 only, once per iteration; an iteration
\* whose copy has Timeout clear takes the else branch and writes neither the
\* flag nor LATB7, even when the handler sets the flag later in that iteration
\* (h.missed); such a set stays until the next call of getFlags, whose copy
\* has Timeout set (h.caught).
C19_DecidesOnSnapshot ==
  /\ [][flg' # flg => (hpc = "idle" /\ pc = "l111")]_vars
  /\ [](AfterSnapshot /\ ~TimeoutSeen(flg) => pc \in {"l112", "l119", "l120", "l124"})
  /\ [][(AfterSnapshot /\ ~TimeoutSeen(flg) /\ hpc = "idle" /\ hpc' = "idle") =>
          (Flags' = Flags /\ LATB7' = LATB7)]_vars
  /\ [](h.missed => Timeout(Flags) = 1)
  /\ [](h.caught /\ AfterSnapshot => TimeoutSeen(flg))

\* the handler set the flag in an iteration whose copy had Timeout clear, that
\* iteration ended without a write to the flag or to LATB7, and the next
\* iteration's copy shows the flag
C19_Witness ==
  /\ pc = "l112" /\ hpc = "idle" /\ h.caught /\ TimeoutSeen(flg)
  /\ h.nObs = 1 /\ h.nHandled = 1 /\ h.nDone >= 1 /\ LATB7 = h.b0

====
